---------------------------- MODULE Spec2Model ----------------------------
(***************************************************************************)
(* Plan -> visualize -> execute orchestration of the action_ws repository. *)
(*                                                                         *)
(* Two programs are modelled, each a single control-flow thread (main):    *)
(*   pick_and_place_node  (src/src/pick_and_place/src/pick_and_place_node) *)
(*   plan_and_execute     (src/src/tacbot/src/plan_and_execute.cpp)        *)
(* beside the asynchronous collaborators both start: the planning scene    *)
(* monitor that writes the world state (ros::AsyncSpinner + start*Monitor) *)
(* and the trajectory execution backend with its duration clock.           *)
(* pc names the statement main executes next.                              *)
(***************************************************************************)
EXTENDS Integers, FiniteSets, Sequences, TLC

\* Number of world-state revisions the monitor publishes in one run.
MaxRev == 3
\* Ticks of the execution backend's duration clock before it reports timeout.
TimeBudget == 2

VARIABLES
  prog,            \* which main() runs
  pc,              \* next statement of main
  exitCode,        \* value returned by main, NotExited while it runs
  errorLog,        \* what ROS_ERROR reported about a planning failure
  \* ---- world model (planning scene monitor) ----
  rev,             \* last completely published revision, 0 = nothing observed
  sceneJoints,     \* revision of the robot state held by the scene
  sceneObstacles,  \* revision of the world geometry held by the scene
  writing,         \* the monitor is inside its (exclusive) update
  lscene,          \* main holds the read lock (LockedPlanningSceneRO alive)
  lockedRev,       \* revision current when the read lock was taken
  \* ---- planning ----
  robot_state,     \* revision read by csm->getCurrentState()
  req_start,       \* revision stored in req.start_state, NoRev = left empty
  seenJoints,      \* robot state the planner read from the locked scene
  seenObstacles,   \* world geometry the planner read from the locked scene
  planStart,       \* revision of the state the planner planned from
  res,             \* res.error_code_.val
  planCalls,       \* invocations of the planner capability
  \* ---- visualization ----
  published,       \* artifacts handed to the visualization sink
  \* ---- execution ----
  controllersQueried, \* printControllers has run
  pushOk,          \* result of the last push (discarded by main)
  pushCount,       \* hand-offs of a trajectory to the backend
  status,          \* execution status
  elapsed,         \* ticks of the backend's duration clock
  backendDiag,     \* diagnostic string of the backend's report
  returned,        \* ExecutionStatus object executeAndWait returned to main
  \* ---- visualization sink ----
  vizFailed,       \* artifacts whose publication failed in the sink
  \* ---- joint goal ----
  goalInput,       \* named joint values given to the goal builder
  goal,            \* goal it built, or UnknownJoint
  \* ---- controller query ----
  active_controllers, \* printControllers: answer of getActiveControllers
  known_controllers,  \* printControllers: answer of getControllersList
  \* ---- operator prompt ----
  promptAnswer,    \* answer to plan_and_execute's first prompt
  contextCreated,  \* createPlanningContext has run
  \* ---- manipulability ----
  mm,              \* a ManipulabilityMeasures object
  eig_vec,         \* vector returned by getVector
  mcall,           \* last operation applied to mm
  jac,             \* translational Jacobian given to evaluate
  threshold,       \* pass threshold given to evaluate
  nearZero         \* number of (near) zero eigenvalues evaluate found

vars == << prog, pc, exitCode, errorLog, rev, sceneJoints, sceneObstacles,
           writing, lscene, lockedRev, robot_state, req_start, seenJoints,
           seenObstacles, planStart, res, planCalls, published,
           controllersQueried, pushOk, pushCount, status, elapsed,
           backendDiag, returned, vizFailed, goalInput, goal,
           active_controllers, known_controllers, promptAnswer,
           contextCreated, mm, eig_vec, mcall, jac, threshold, nearZero >>

worldVars == << rev, sceneJoints, sceneObstacles, writing >>
planVars  == << robot_state, req_start, seenJoints, seenObstacles, planStart,
                res, planCalls >>
execVars  == << controllersQueried, pushOk, pushCount, status, elapsed >>
exitVars  == << exitCode, errorLog >>
reportVars  == << backendDiag, returned >>
vizVars     == << vizFailed >>
goalVars    == << goalInput, goal >>
ctrlVars    == << active_controllers, known_controllers >>
promptVars  == << promptAnswer, contextCreated >>
measureVars == << mm, eig_vec, mcall, jac, threshold, nearZero >>

Programs == { "pick_and_place_node", "plan_and_execute" }

NoRev == -1
NotExited == -1

\* moveit_msgs::MoveItErrorCodes values the planner capability can report.
SuccessCode == "SUCCESS"
FailureCodes == { "PLANNING_FAILED", "INVALID_MOTION_PLAN", "TIMED_OUT" }
PlannerCodes == { SuccessCode } \cup FailureCodes
Unset == "UNSET"

\* Execution status values.
TerminalStatus == { "succeeded", "failed", "preempted", "timeout" }
BackendReports == { "succeeded", "failed", "preempted" }

\* Diagnostic strings the execution backend attaches to a fault.
NoDiag == "none"
Diagnostics == { "controller fault", "path tolerance violated" }
\* main has no ExecutionStatus yet.
NoStatus == [ code |-> "none", diagnostic |-> NoDiag ]

\* Artifacts the visualization sink can be given.
TrajectoryArtifacts == { "display_planned_path", "trajectory_line",
                         "planned_path", "raw_path" }

\* Controller names the backend's controller manager may list.
ControllerNames == { "position_joint_trajectory_controller",
                     "franka_gripper" }

\* Joints: those of the robot model, and other names a goal may carry.
NumModelJoints == 3
NumUnknownJoints == 1
ModelJoints == 1 .. NumModelJoints
UnknownJoints == (NumModelJoints + 1) .. (NumModelJoints + NumUnknownJoints)
JointValues == { 0, 1 }
\* Named joint values: a function from a set of joint names to values.
NamedJointValues ==
  UNION { [ names -> JointValues ] : names \in SUBSET (ModelJoints \cup UnknownJoints) }
\* Results of the goal builder other than a goal: the UnknownJoint failure,
\* and nothing built yet.
UnknownJoint == [ kind |-> "UnknownJoint", joints |-> << >> ]
NoGoal == [ kind |-> "none", joints |-> << >> ]
\* The joint goal plan_and_execute's planner holds: every model joint.
PlannerJointGoal == [ j \in ModelJoints |-> 0 ]

\* Mutant: the pass member has no initializer and happens to read true.
ManipulabilityMeasures_new_passSet ==
  [ eigen_values |-> << >>, eigen_vectors |-> << >>, pass |-> TRUE ]

\* No operation has been applied to mm.
NoCall == [ op |-> "none", arg |-> 0 ]

\* struct ManipulabilityMeasures { MatrixXd eigen_values; MatrixXd
\* eigen_vectors; bool pass = false; }: the matrices start empty.
ManipulabilityMeasures_new ==
  [ eigen_values |-> << >>, eigen_vectors |-> << >>, pass |-> FALSE ]

\* State of main, the world and the backend when main starts.
PipelineInit ==
  /\ pc = "start"
  /\ exitCode = NotExited
  /\ errorLog = "none"
  /\ rev = 0
  /\ sceneJoints = 0
  /\ sceneObstacles = 0
  /\ writing = FALSE
  /\ lscene = FALSE
  /\ lockedRev = NoRev
  /\ robot_state = NoRev
  /\ req_start = NoRev
  /\ seenJoints = NoRev
  /\ seenObstacles = NoRev
  /\ planStart = NoRev
  /\ res = Unset
  /\ planCalls = 0
  /\ published = {}
  /\ controllersQueried = FALSE
  /\ pushOk = FALSE
  /\ pushCount = 0
  /\ status = "pending"
  /\ elapsed = 0
  /\ backendDiag = NoDiag
  /\ returned = NoStatus
  /\ vizFailed = {}
  /\ active_controllers = {}
  /\ known_controllers = {}
  /\ promptAnswer = "none"
  /\ contextCreated = FALSE
  /\ goal = NoGoal

\* No manipulability evaluation is under way.
MeasureIdle ==
  /\ mm = ManipulabilityMeasures_new
  /\ eig_vec = << >>
  /\ mcall = NoCall
  /\ jac = << >>
  /\ threshold = 0
  /\ nearZero = 0

Init ==
  /\ prog \in Programs
  /\ goalInput = PlannerJointGoal
  /\ MeasureIdle
  /\ PipelineInit

-----------------------------------------------------------------------------
(* World model: the planning scene monitor started by main and run by the  *)
(* spinner thread.  An update takes the scene's lock exclusively, so it    *)
(* waits while a LockedPlanningSceneRO is alive; it writes the robot state *)
(* and then the world geometry, and the revision is published at the end.  *)

\* Multiple-reader / single-writer discipline of the scene's lock.
ReaderMayEnter == ~writing
WriterMayEnter == ~writing /\ ~lscene

updateFromSensors_begin ==
  /\ pc # "start"
  /\ rev < MaxRev
  /\ WriterMayEnter
  /\ writing' = TRUE
  /\ sceneJoints' = rev + 1
  /\ UNCHANGED << rev, sceneObstacles >>
  /\ UNCHANGED << prog, pc, lscene, lockedRev, published >>
  /\ UNCHANGED planVars /\ UNCHANGED execVars /\ UNCHANGED exitVars
  /\ UNCHANGED << reportVars, vizVars, goalVars, ctrlVars, promptVars, measureVars >>

updateFromSensors_end ==
  /\ writing
  /\ sceneObstacles' = sceneJoints
  /\ rev' = sceneJoints
  /\ writing' = FALSE
  /\ UNCHANGED << sceneJoints >>
  /\ UNCHANGED << prog, pc, lscene, lockedRev, published >>
  /\ UNCHANGED planVars /\ UNCHANGED execVars /\ UNCHANGED exitVars
  /\ UNCHANGED << reportVars, vizVars, goalVars, ctrlVars, promptVars, measureVars >>

-----------------------------------------------------------------------------
(* The planner capability (planning_pipeline->generatePlan).  It plans     *)
(* from req.start_state when the request carries one and from the scene's  *)
(* current state otherwise, then reports one of the error codes.           *)

PlannerStartState == IF req_start # NoRev THEN req_start ELSE sceneJoints

\* First half of a planner invocation: read the robot state.
PlannerReadState ==
  /\ seenJoints' = sceneJoints
  /\ planStart' = PlannerStartState
  /\ planCalls' = planCalls + 1
  /\ UNCHANGED << robot_state, req_start, seenObstacles, res >>

\* Second half: read the world geometry, solve, report a code.
PlannerSolve ==
  /\ seenObstacles' = sceneObstacles
  /\ \E code \in PlannerCodes : res' = code
  /\ UNCHANGED << robot_state, req_start, seenJoints, planStart, planCalls >>

-----------------------------------------------------------------------------
(* pick_and_place_node: main, statement by statement.                      *)

\* ros::init, spinner.start(), start*Monitor, updateSceneWithCurrentState.
PP_start ==
  /\ prog = "pick_and_place_node" /\ pc = "start"
  /\ pc' = "getCurrentState"
  /\ UNCHANGED << prog, lscene, lockedRev, published >>
  /\ UNCHANGED worldVars /\ UNCHANGED planVars /\ UNCHANGED execVars
  /\ UNCHANGED exitVars
  /\ UNCHANGED << reportVars, vizVars, goalVars, ctrlVars, promptVars, measureVars >>

\* robot_state = csm->getCurrentState(): read without any availability check.
PP_getCurrentState ==
  /\ prog = "pick_and_place_node" /\ pc = "getCurrentState"
  /\ robot_state' = sceneJoints
  /\ pc' = "buildRequest"
  /\ UNCHANGED << req_start, seenJoints, seenObstacles, planStart, res, planCalls >>
  /\ UNCHANGED << prog, lscene, lockedRev, published >>
  /\ UNCHANGED worldVars /\ UNCHANGED execVars /\ UNCHANGED exitVars
  /\ UNCHANGED << reportVars, vizVars, goalVars, ctrlVars, promptVars, measureVars >>

\* req: group name, planning time, planner id, pose goal.  The code that
\* copied robot_state into req.start_state is commented out: it stays empty.
PP_buildRequest ==
  /\ prog = "pick_and_place_node" /\ pc = "buildRequest"
  /\ req_start' = NoRev
  /\ pc' = "lock"
  /\ UNCHANGED << robot_state, seenJoints, seenObstacles, planStart, res, planCalls >>
  /\ UNCHANGED << prog, lscene, lockedRev, published >>
  /\ UNCHANGED worldVars /\ UNCHANGED execVars /\ UNCHANGED exitVars
  /\ UNCHANGED << reportVars, vizVars, goalVars, ctrlVars, promptVars, measureVars >>

\* Mutant: the scene is used without taking the read lock.
PP_LockedPlanningSceneRO_nolock ==
  /\ prog = "pick_and_place_node" /\ pc = "lock"
  /\ lockedRev' = rev
  /\ pc' = "generatePlan"
  /\ UNCHANGED << prog, lscene, published >>
  /\ UNCHANGED worldVars /\ UNCHANGED planVars /\ UNCHANGED execVars
  /\ UNCHANGED exitVars
  /\ UNCHANGED << reportVars, vizVars, goalVars, ctrlVars, promptVars, measureVars >>

\* planning_scene_monitor::LockedPlanningSceneRO lscene(psm): blocks while
\* the monitor is inside an update.
PP_LockedPlanningSceneRO ==
  /\ prog = "pick_and_place_node" /\ pc = "lock"
  /\ ReaderMayEnter
  /\ lscene' = TRUE
  /\ lockedRev' = rev
  /\ pc' = "generatePlan"
  /\ UNCHANGED << prog, published >>
  /\ UNCHANGED worldVars /\ UNCHANGED planVars /\ UNCHANGED execVars
  /\ UNCHANGED exitVars
  /\ UNCHANGED << reportVars, vizVars, goalVars, ctrlVars, promptVars, measureVars >>

\* planning_pipeline->generatePlan(lscene, req, res), first half.
PP_generatePlan_read ==
  /\ prog = "pick_and_place_node" /\ pc = "generatePlan"
  /\ PlannerReadState
  /\ pc' = "generatePlan_solve"
  /\ UNCHANGED << prog, lscene, lockedRev, published >>
  /\ UNCHANGED worldVars /\ UNCHANGED execVars /\ UNCHANGED exitVars
  /\ UNCHANGED << reportVars, vizVars, goalVars, ctrlVars, promptVars, measureVars >>

\* planning_pipeline->generatePlan(lscene, req, res), second half.
PP_generatePlan_solve ==
  /\ prog = "pick_and_place_node" /\ pc = "generatePlan_solve"
  /\ PlannerSolve
  /\ pc' = "unlock"
  /\ UNCHANGED << prog, lscene, lockedRev, published >>
  /\ UNCHANGED worldVars /\ UNCHANGED execVars /\ UNCHANGED exitVars
  /\ UNCHANGED << reportVars, vizVars, goalVars, ctrlVars, promptVars, measureVars >>

\* Mutant: lscene is declared in main's scope, so it lives to the end of main.
PP_unlock_never ==
  /\ prog = "pick_and_place_node" /\ pc = "unlock"
  /\ pc' = "checkError"
  /\ UNCHANGED << prog, lscene, lockedRev, published >>
  /\ UNCHANGED worldVars /\ UNCHANGED planVars /\ UNCHANGED execVars
  /\ UNCHANGED exitVars
  /\ UNCHANGED << reportVars, vizVars, goalVars, ctrlVars, promptVars, measureVars >>

\* Mutant: an explicit unlock that only the success path reaches.
PP_unlock_onSuccess ==
  /\ prog = "pick_and_place_node" /\ pc = "unlock"
  /\ lscene' = IF res = SuccessCode THEN FALSE ELSE lscene
  /\ pc' = "checkError"
  /\ UNCHANGED << prog, lockedRev, published >>
  /\ UNCHANGED worldVars /\ UNCHANGED planVars /\ UNCHANGED execVars
  /\ UNCHANGED exitVars
  /\ UNCHANGED << reportVars, vizVars, goalVars, ctrlVars, promptVars, measureVars >>

\* The closing brace of the block that declares lscene: its destructor
\* releases the read lock whatever generatePlan reported.
PP_unlock ==
  /\ prog = "pick_and_place_node" /\ pc = "unlock"
  /\ lscene' = FALSE
  /\ pc' = "checkError"
  /\ UNCHANGED << prog, lockedRev, published >>
  /\ UNCHANGED worldVars /\ UNCHANGED planVars /\ UNCHANGED execVars
  /\ UNCHANGED exitVars
  /\ UNCHANGED << reportVars, vizVars, goalVars, ctrlVars, promptVars, measureVars >>

\* Mutant: the test is inverted (== for !=).
PP_checkError_inverted ==
  /\ prog = "pick_and_place_node" /\ pc = "checkError"
  /\ IF res = SuccessCode
       THEN /\ errorLog' = "Could not compute plan successfully"
            /\ exitCode' = 0
            /\ pc' = "exited"
       ELSE /\ pc' = "visualize"
            /\ UNCHANGED exitVars
  /\ UNCHANGED << prog, lscene, lockedRev, published >>
  /\ UNCHANGED worldVars /\ UNCHANGED planVars /\ UNCHANGED execVars
  /\ UNCHANGED << reportVars, vizVars, goalVars, ctrlVars, promptVars, measureVars >>

\* if (res.error_code_.val != SUCCESS) { ROS_ERROR(...); return 0; }
\* The message carries no code and the value returned is 0.
PP_checkError ==
  /\ prog = "pick_and_place_node" /\ pc = "checkError"
  /\ IF res # SuccessCode
       THEN /\ errorLog' = "Could not compute plan successfully"
            /\ exitCode' = 0
            /\ pc' = "exited"
       ELSE /\ pc' = "visualize"
            /\ UNCHANGED exitVars
  /\ UNCHANGED << prog, lscene, lockedRev, published >>
  /\ UNCHANGED worldVars /\ UNCHANGED planVars /\ UNCHANGED execVars
  /\ UNCHANGED << reportVars, vizVars, goalVars, ctrlVars, promptVars, measureVars >>

\* Mutant: a failed publication ends main with an error.
PP_visualize_abort ==
  /\ prog = "pick_and_place_node" /\ pc = "visualize"
  /\ published' = published \cup { "display_planned_path", "trajectory_line" }
  /\ \E failed \in SUBSET { "display_planned_path", "trajectory_line" } :
       /\ vizFailed' = vizFailed \cup failed
       /\ IF failed # {}
            THEN /\ pc' = "exited"
                 /\ exitCode' = 1
                 /\ UNCHANGED errorLog
            ELSE /\ pc' = "printControllers"
                 /\ UNCHANGED exitVars
  /\ UNCHANGED << prog, lscene, lockedRev >>
  /\ UNCHANGED worldVars /\ UNCHANGED planVars /\ UNCHANGED execVars
  /\ UNCHANGED << reportVars, goalVars, ctrlVars, promptVars, measureVars >>

\* display_publisher.publish(display_trajectory); publishTrajectoryLine;
\* trigger.  Either publication may fail in the sink; main does not look at
\* what the calls return.
PP_visualize ==
  /\ prog = "pick_and_place_node" /\ pc = "visualize"
  /\ published' = published \cup { "display_planned_path", "trajectory_line" }
  /\ \E failed \in SUBSET { "display_planned_path", "trajectory_line" } :
       vizFailed' = vizFailed \cup failed
  /\ pc' = "printControllers"
  /\ UNCHANGED << prog, lscene, lockedRev >>
  /\ UNCHANGED worldVars /\ UNCHANGED planVars /\ UNCHANGED execVars
  /\ UNCHANGED exitVars
  /\ UNCHANGED << reportVars, goalVars, ctrlVars, promptVars, measureVars >>

\* Mutant: with no active controller main skips the execution.
PP_printControllers_gating ==
  /\ prog = "pick_and_place_node" /\ pc = "printControllers"
  /\ controllersQueried' = TRUE
  /\ \E known \in SUBSET ControllerNames :
       \E active \in SUBSET known :
         /\ known_controllers' = known
         /\ active_controllers' = active
         /\ pc' = IF active = {} THEN "promptAnyInput" ELSE "push"
  /\ UNCHANGED << pushOk, pushCount, status, elapsed >>
  /\ UNCHANGED << prog, lscene, lockedRev, published >>
  /\ UNCHANGED worldVars /\ UNCHANGED planVars /\ UNCHANGED exitVars
  /\ UNCHANGED << reportVars, vizVars, goalVars, promptVars, measureVars >>

\* printControllers(controller_manager): the two lists are only printed.
PP_printControllers ==
  /\ prog = "pick_and_place_node" /\ pc = "printControllers"
  /\ controllersQueried' = TRUE
  /\ \E known \in SUBSET ControllerNames :
       \E active \in SUBSET known :
         /\ known_controllers' = known
         /\ active_controllers' = active
  /\ pc' = "push"
  /\ UNCHANGED << pushOk, pushCount, status, elapsed >>
  /\ UNCHANGED << prog, lscene, lockedRev, published >>
  /\ UNCHANGED worldVars /\ UNCHANGED planVars /\ UNCHANGED exitVars
  /\ UNCHANGED << reportVars, vizVars, goalVars, promptVars, measureVars >>

\* traj_execution_manager->push(robot_trajectory): the backend accepts the
\* trajectory or not; main discards the answer.
PP_push ==
  /\ prog = "pick_and_place_node" /\ pc = "push"
  /\ \E ok \in BOOLEAN :
       /\ pushOk' = ok
       /\ status' = IF ok THEN "running" ELSE status
  /\ pushCount' = pushCount + 1
  /\ pc' = "executeAndWait"
  /\ UNCHANGED << controllersQueried, elapsed >>
  /\ UNCHANGED << prog, lscene, lockedRev, published >>
  /\ UNCHANGED worldVars /\ UNCHANGED planVars /\ UNCHANGED exitVars
  /\ UNCHANGED << reportVars, vizVars, goalVars, ctrlVars, promptVars, measureVars >>

\* status = traj_execution_manager->executeAndWait(): the call is made
\* whatever push answered, and main is suspended in it.
PP_executeAndWait ==
  /\ prog = "pick_and_place_node" /\ pc = "executeAndWait"
  /\ elapsed' = 0
  /\ pc' = "waiting"
  /\ UNCHANGED << controllersQueried, pushOk, pushCount, status >>
  /\ UNCHANGED << prog, lscene, lockedRev, published >>
  /\ UNCHANGED worldVars /\ UNCHANGED planVars /\ UNCHANGED exitVars
  /\ UNCHANGED << reportVars, vizVars, goalVars, ctrlVars, promptVars, measureVars >>

\* Execution backend: completion, fault or external preemption.
backendReport ==
  /\ pc = "waiting"
  /\ status \notin TerminalStatus
  /\ \E s \in BackendReports, d \in Diagnostics :
       /\ status' = s
       /\ backendDiag' = IF s = "failed" THEN d ELSE NoDiag
  /\ UNCHANGED returned
  /\ UNCHANGED << controllersQueried, pushOk, pushCount, elapsed >>
  /\ UNCHANGED << prog, pc, lscene, lockedRev, published >>
  /\ UNCHANGED worldVars /\ UNCHANGED planVars /\ UNCHANGED exitVars
  /\ UNCHANGED << vizVars, goalVars, ctrlVars, promptVars, measureVars >>

\* Execution backend: its duration clock advances.
clockTick ==
  /\ pc = "waiting"
  /\ status \notin TerminalStatus
  /\ elapsed < TimeBudget
  /\ elapsed' = elapsed + 1
  /\ UNCHANGED << controllersQueried, pushOk, pushCount, status >>
  /\ UNCHANGED << prog, pc, lscene, lockedRev, published >>
  /\ UNCHANGED worldVars /\ UNCHANGED planVars /\ UNCHANGED exitVars
  /\ UNCHANGED << reportVars, vizVars, goalVars, ctrlVars, promptVars, measureVars >>

\* Execution backend: the allowed time budget is exceeded.
timeoutFires ==
  /\ pc = "waiting"
  /\ status \notin TerminalStatus
  /\ elapsed >= TimeBudget
  /\ status' = "timeout"
  /\ UNCHANGED reportVars
  /\ UNCHANGED << controllersQueried, pushOk, pushCount, elapsed >>
  /\ UNCHANGED << prog, pc, lscene, lockedRev, published >>
  /\ UNCHANGED worldVars /\ UNCHANGED planVars /\ UNCHANGED exitVars
  /\ UNCHANGED << vizVars, goalVars, ctrlVars, promptVars, measureVars >>

\* Mutant: main waits for success only.
PP_executeAndWait_return_onSuccess ==
  /\ prog = "pick_and_place_node" /\ pc = "waiting"
  /\ status = "succeeded"
  /\ returned' = [ code |-> status, diagnostic |-> NoDiag ]
  /\ UNCHANGED backendDiag
  /\ pc' = "logStatus"
  /\ UNCHANGED << prog, lscene, lockedRev, published >>
  /\ UNCHANGED worldVars /\ UNCHANGED planVars /\ UNCHANGED execVars
  /\ UNCHANGED exitVars
  /\ UNCHANGED << vizVars, goalVars, ctrlVars, promptVars, measureVars >>

\* executeAndWait returns the backend's ExecutionStatus to main, which keeps it
\* as it is (moveit_controller_manager::ExecutionStatus status = ...).  The
\* object is one status value, printed with asString(): whatever diagnostic
\* the backend had for a fault is not part of it.
PP_executeAndWait_return ==
  /\ prog = "pick_and_place_node" /\ pc = "waiting"
  /\ status \in TerminalStatus
  /\ returned' = [ code |-> status, diagnostic |-> NoDiag ]
  /\ UNCHANGED backendDiag
  /\ pc' = "logStatus"
  /\ UNCHANGED << prog, lscene, lockedRev, published >>
  /\ UNCHANGED worldVars /\ UNCHANGED planVars /\ UNCHANGED execVars
  /\ UNCHANGED exitVars
  /\ UNCHANGED << vizVars, goalVars, ctrlVars, promptVars, measureVars >>

\* Mutant: a status other than succeeded sends main back to push.
PP_logStatus_retry ==
  /\ prog = "pick_and_place_node" /\ pc = "logStatus"
  /\ pc' = IF status = "succeeded" THEN "promptAnyInput" ELSE "push"
  /\ status' = IF status = "succeeded" THEN status ELSE "pending"
  /\ UNCHANGED << controllersQueried, pushOk, pushCount, elapsed >>
  /\ UNCHANGED << prog, lscene, lockedRev, published >>
  /\ UNCHANGED worldVars /\ UNCHANGED planVars /\ UNCHANGED exitVars
  /\ UNCHANGED << reportVars, vizVars, goalVars, ctrlVars, promptVars, measureVars >>

\* ROS_INFO_NAMED(LOGNAME, "Status: %s", ...): the status is only logged.
PP_logStatus ==
  /\ prog = "pick_and_place_node" /\ pc = "logStatus"
  /\ pc' = "promptAnyInput"
  /\ UNCHANGED << prog, lscene, lockedRev, published >>
  /\ UNCHANGED worldVars /\ UNCHANGED planVars /\ UNCHANGED execVars
  /\ UNCHANGED exitVars
  /\ UNCHANGED << reportVars, vizVars, goalVars, ctrlVars, promptVars, measureVars >>

\* promptAnyInput(): getchar().
PP_promptAnyInput ==
  /\ prog = "pick_and_place_node" /\ pc = "promptAnyInput"
  /\ pc' = "finished"
  /\ UNCHANGED << prog, lscene, lockedRev, published >>
  /\ UNCHANGED worldVars /\ UNCHANGED planVars /\ UNCHANGED execVars
  /\ UNCHANGED exitVars
  /\ UNCHANGED << reportVars, vizVars, goalVars, ctrlVars, promptVars, measureVars >>

\* std::cout << "Finished!"; return 0;
PP_finish ==
  /\ prog = "pick_and_place_node" /\ pc = "finished"
  /\ exitCode' = 0
  /\ pc' = "exited"
  /\ UNCHANGED << errorLog >>
  /\ UNCHANGED << prog, lscene, lockedRev, published >>
  /\ UNCHANGED worldVars /\ UNCHANGED planVars /\ UNCHANGED execVars
  /\ UNCHANGED << reportVars, vizVars, goalVars, ctrlVars, promptVars, measureVars >>

PP_Next ==
  \/ PP_start \/ PP_getCurrentState \/ PP_buildRequest
  \/ PP_LockedPlanningSceneRO \/ PP_generatePlan_read \/ PP_generatePlan_solve
  \/ PP_unlock \/ PP_checkError \/ PP_visualize \/ PP_printControllers
  \/ PP_push \/ PP_executeAndWait \/ PP_executeAndWait_return
  \/ PP_logStatus \/ PP_promptAnyInput \/ PP_finish

-----------------------------------------------------------------------------
(* plan_and_execute: main, statement by statement.                         *)

\* bool execute_trajectory = false;
execute_trajectory == FALSE

\* ros::init, spinner.start(), planner->init(), Visualizer, MyMoveitContext.
PE_start ==
  /\ prog = "plan_and_execute" /\ pc = "start"
  /\ pc' = "setCurToStartState"
  /\ UNCHANGED << prog, lscene, lockedRev, published >>
  /\ UNCHANGED worldVars /\ UNCHANGED planVars /\ UNCHANGED execVars
  /\ UNCHANGED exitVars
  /\ UNCHANGED << reportVars, vizVars, goalVars, ctrlVars, promptVars, measureVars >>

\* planner->setCurToStartState(req): the current robot state becomes the
\* request's start state.
PE_setCurToStartState ==
  /\ prog = "plan_and_execute" /\ pc = "setCurToStartState"
  /\ req_start' = sceneJoints
  /\ pc' = "createJointGoal"
  /\ UNCHANGED << robot_state, seenJoints, seenObstacles, planStart, res, planCalls >>
  /\ UNCHANGED << prog, lscene, lockedRev, published >>
  /\ UNCHANGED worldVars /\ UNCHANGED execVars /\ UNCHANGED exitVars
  /\ UNCHANGED << reportVars, vizVars, goalVars, ctrlVars, promptVars, measureVars >>

\* Mutant: joints the robot model does not have are dropped silently.
buildJointGoal_dropUnknown(namedJointValues) ==
  [ kind |-> "joint",
    joints |-> [ j \in (DOMAIN namedJointValues) \cap ModelJoints |->
                   namedJointValues[j] ] ]

\* GoalBuilder.buildJointGoal: every named joint must exist in the robot
\* model, else UnknownJoint; the goal carries the named values as given.
buildJointGoal(namedJointValues) ==
  IF DOMAIN namedJointValues \subseteq ModelJoints
    THEN [ kind |-> "joint", joints |-> namedJointValues ]
    ELSE UnknownJoint

\* goal = planner->createJointGoal(); req.goal_constraints.push_back(goal).
PE_createJointGoal ==
  /\ prog = "plan_and_execute" /\ pc = "createJointGoal"
  /\ goal' = buildJointGoal(goalInput)
  /\ UNCHANGED goalInput
  /\ pc' = "visualizeGoalState"
  /\ UNCHANGED << prog, lscene, lockedRev, published >>
  /\ UNCHANGED worldVars /\ UNCHANGED planVars /\ UNCHANGED execVars
  /\ UNCHANGED exitVars
  /\ UNCHANGED << reportVars, vizVars, ctrlVars, promptVars, measureVars >>

\* visualizer->visualizeGoalState(joint names, joint goal positions).
PE_visualizeGoalState ==
  /\ prog = "plan_and_execute" /\ pc = "visualizeGoalState"
  /\ published' = published \cup { "goal_state" }
  /\ \E ok \in BOOLEAN :
       vizFailed' = IF ok THEN vizFailed ELSE vizFailed \cup { "goal_state" }
  /\ pc' = "visualizeObstacleMarker"
  /\ UNCHANGED << prog, lscene, lockedRev >>
  /\ UNCHANGED worldVars /\ UNCHANGED planVars /\ UNCHANGED execVars
  /\ UNCHANGED exitVars
  /\ UNCHANGED << reportVars, goalVars, ctrlVars, promptVars, measureVars >>

\* visualizer->visualizeObstacleMarker(planner->getObstaclePos()).
PE_visualizeObstacleMarker ==
  /\ prog = "plan_and_execute" /\ pc = "visualizeObstacleMarker"
  /\ published' = published \cup { "obstacle_markers" }
  /\ \E ok \in BOOLEAN :
       vizFailed' = IF ok THEN vizFailed ELSE vizFailed \cup { "obstacle_markers" }
  /\ pc' = "promptUserInput"
  /\ UNCHANGED << prog, lscene, lockedRev >>
  /\ UNCHANGED worldVars /\ UNCHANGED planVars /\ UNCHANGED execVars
  /\ UNCHANGED exitVars
  /\ UNCHANGED << reportVars, goalVars, ctrlVars, promptVars, measureVars >>

\* Mutant: the operator's answer is not looked at.
PE_promptUserInput_ignored ==
  /\ prog = "plan_and_execute" /\ pc = "promptUserInput"
  /\ \E confirmed \in BOOLEAN :
       promptAnswer' = IF confirmed THEN "yes" ELSE "no"
  /\ pc' = "createPlanningContext"
  /\ UNCHANGED contextCreated
  /\ UNCHANGED << prog, lscene, lockedRev, published >>
  /\ UNCHANGED worldVars /\ UNCHANGED planVars /\ UNCHANGED execVars
  /\ UNCHANGED exitVars
  /\ UNCHANGED << reportVars, vizVars, goalVars, ctrlVars, measureVars >>

\* bool status = utilities::promptUserInput(); if (!status) return 0;
PE_promptUserInput ==
  /\ prog = "plan_and_execute" /\ pc = "promptUserInput"
  /\ \E confirmed \in BOOLEAN :
       /\ promptAnswer' = IF confirmed THEN "yes" ELSE "no"
       /\ IF ~confirmed
            THEN /\ exitCode' = 0
                 /\ pc' = "exited"
                 /\ UNCHANGED errorLog
            ELSE /\ pc' = "createPlanningContext"
                 /\ UNCHANGED exitVars
  /\ UNCHANGED contextCreated
  /\ UNCHANGED << prog, lscene, lockedRev, published >>
  /\ UNCHANGED worldVars /\ UNCHANGED planVars /\ UNCHANGED execVars
  /\ UNCHANGED << reportVars, vizVars, goalVars, ctrlVars, measureVars >>

\* req.group_name ... ; context->createPlanningContext(req);
\* planner->setPlanningContext(...); planner->changePlanner().
\* The context gets req as it is, start state included.
PE_createPlanningContext ==
  /\ prog = "plan_and_execute" /\ pc = "createPlanningContext"
  /\ contextCreated' = TRUE
  /\ UNCHANGED promptAnswer
  /\ pc' = "lock"
  /\ UNCHANGED << prog, lscene, lockedRev, published >>
  /\ UNCHANGED worldVars /\ UNCHANGED planVars /\ UNCHANGED execVars
  /\ UNCHANGED exitVars
  /\ UNCHANGED << reportVars, vizVars, goalVars, ctrlVars, measureVars >>

\* Inside planner->generatePlan(res): the read lock on the world model is
\* taken for the planner invocation.
PE_acquireReadLock ==
  /\ prog = "plan_and_execute" /\ pc = "lock"
  /\ ReaderMayEnter
  /\ lscene' = TRUE
  /\ lockedRev' = rev
  /\ pc' = "generatePlan"
  /\ UNCHANGED << prog, published >>
  /\ UNCHANGED worldVars /\ UNCHANGED planVars /\ UNCHANGED execVars
  /\ UNCHANGED exitVars
  /\ UNCHANGED << reportVars, vizVars, goalVars, ctrlVars, promptVars, measureVars >>

\* planner->generatePlan(res), first half.
PE_generatePlan_read ==
  /\ prog = "plan_and_execute" /\ pc = "generatePlan"
  /\ PlannerReadState
  /\ pc' = "generatePlan_solve"
  /\ UNCHANGED << prog, lscene, lockedRev, published >>
  /\ UNCHANGED worldVars /\ UNCHANGED execVars /\ UNCHANGED exitVars
  /\ UNCHANGED << reportVars, vizVars, goalVars, ctrlVars, promptVars, measureVars >>

\* planner->generatePlan(res), second half.
PE_generatePlan_solve ==
  /\ prog = "plan_and_execute" /\ pc = "generatePlan_solve"
  /\ PlannerSolve
  /\ pc' = "unlock"
  /\ UNCHANGED << prog, lscene, lockedRev, published >>
  /\ UNCHANGED worldVars /\ UNCHANGED execVars /\ UNCHANGED exitVars
  /\ UNCHANGED << reportVars, vizVars, goalVars, ctrlVars, promptVars, measureVars >>

\* Inside planner->generatePlan(res): the read lock is released before the
\* call returns.
PE_releaseLock ==
  /\ prog = "plan_and_execute" /\ pc = "unlock"
  /\ lscene' = FALSE
  /\ pc' = "checkError"
  /\ UNCHANGED << prog, lockedRev, published >>
  /\ UNCHANGED worldVars /\ UNCHANGED planVars /\ UNCHANGED execVars
  /\ UNCHANGED exitVars
  /\ UNCHANGED << reportVars, vizVars, goalVars, ctrlVars, promptVars, measureVars >>

\* if (res.error_code_.val != SUCCESS) { ROS_ERROR("... Error code: %d"); return 1; }
PE_checkError ==
  /\ prog = "plan_and_execute" /\ pc = "checkError"
  /\ IF res # SuccessCode
       THEN /\ errorLog' = res
            /\ exitCode' = 1
            /\ pc' = "exited"
       ELSE /\ pc' = "visualizeTrajectory"
            /\ UNCHANGED exitVars
  /\ UNCHANGED << prog, lscene, lockedRev, published >>
  /\ UNCHANGED worldVars /\ UNCHANGED planVars /\ UNCHANGED execVars
  /\ UNCHANGED << reportVars, vizVars, goalVars, ctrlVars, promptVars, measureVars >>

\* res.getMessage(msg); visualizer->visualizeTrajectory(msg, "planned_path").
PE_visualizeTrajectory_planned ==
  /\ prog = "plan_and_execute" /\ pc = "visualizeTrajectory"
  /\ published' = published \cup { "planned_path" }
  /\ \E ok \in BOOLEAN :
       vizFailed' = IF ok THEN vizFailed ELSE vizFailed \cup { "planned_path" }
  /\ pc' = "visualizeTrajectory_raw"
  /\ UNCHANGED << prog, lscene, lockedRev >>
  /\ UNCHANGED worldVars /\ UNCHANGED planVars /\ UNCHANGED execVars
  /\ UNCHANGED exitVars
  /\ UNCHANGED << reportVars, goalVars, ctrlVars, promptVars, measureVars >>

\* visualizer->visualizeTrajectory(planner->raw_plan_resp_, "raw_path").
PE_visualizeTrajectory_raw ==
  /\ prog = "plan_and_execute" /\ pc = "visualizeTrajectory_raw"
  /\ published' = published \cup { "raw_path" }
  /\ \E ok \in BOOLEAN :
       vizFailed' = IF ok THEN vizFailed ELSE vizFailed \cup { "raw_path" }
  /\ pc' = "promptUserInput2"
  /\ UNCHANGED << prog, lscene, lockedRev >>
  /\ UNCHANGED worldVars /\ UNCHANGED planVars /\ UNCHANGED execVars
  /\ UNCHANGED exitVars
  /\ UNCHANGED << reportVars, goalVars, ctrlVars, promptVars, measureVars >>

\* utilities::promptUserInput(): the answer is discarded.
PE_promptUserInput2 ==
  /\ prog = "plan_and_execute" /\ pc = "promptUserInput2"
  /\ pc' = "executeBranch"
  /\ UNCHANGED << prog, lscene, lockedRev, published >>
  /\ UNCHANGED worldVars /\ UNCHANGED planVars /\ UNCHANGED execVars
  /\ UNCHANGED exitVars
  /\ UNCHANGED << reportVars, vizVars, goalVars, ctrlVars, promptVars, measureVars >>

\* if (execute_trajectory == true) { PandaInterface ... follow_joint_velocities }
PE_executeBranch ==
  /\ prog = "plan_and_execute" /\ pc = "executeBranch"
  /\ IF execute_trajectory
       THEN /\ pushCount' = pushCount + 1
            /\ status' = "running"
            /\ UNCHANGED << controllersQueried, pushOk, elapsed >>
       ELSE UNCHANGED execVars
  /\ pc' = "finished"
  /\ UNCHANGED << prog, lscene, lockedRev, published >>
  /\ UNCHANGED worldVars /\ UNCHANGED planVars /\ UNCHANGED exitVars
  /\ UNCHANGED << reportVars, vizVars, goalVars, ctrlVars, promptVars, measureVars >>

\* std::cout << "Finished!"; return 0;
PE_finish ==
  /\ prog = "plan_and_execute" /\ pc = "finished"
  /\ exitCode' = 0
  /\ pc' = "exited"
  /\ UNCHANGED << errorLog >>
  /\ UNCHANGED << prog, lscene, lockedRev, published >>
  /\ UNCHANGED worldVars /\ UNCHANGED planVars /\ UNCHANGED execVars
  /\ UNCHANGED << reportVars, vizVars, goalVars, ctrlVars, promptVars, measureVars >>

PE_Next ==
  \/ PE_start \/ PE_setCurToStartState \/ PE_createJointGoal
  \/ PE_visualizeGoalState \/ PE_visualizeObstacleMarker \/ PE_promptUserInput
  \/ PE_createPlanningContext \/ PE_acquireReadLock \/ PE_generatePlan_read
  \/ PE_generatePlan_solve \/ PE_releaseLock \/ PE_checkError
  \/ PE_visualizeTrajectory_planned \/ PE_visualizeTrajectory_raw
  \/ PE_promptUserInput2 \/ PE_executeBranch \/ PE_finish

-----------------------------------------------------------------------------
WorldNext == updateFromSensors_begin \/ updateFromSensors_end

BackendNext == backendReport \/ clockTick \/ timeoutFires

Next == PP_Next \/ PE_Next \/ WorldNext \/ BackendNext

Spec == Init /\ [][Next]_vars

\* The threads keep running: main is scheduled, the backend either reports
\* or its clock runs out.
FairSpec ==
  /\ Spec
  /\ WF_vars(PP_Next)
  /\ WF_vars(PE_Next)
  /\ WF_vars(clockTick)
  /\ WF_vars(timeoutFires)

\* The monitor thread is scheduled too: an update that may enter does, and
\* one that has begun ends.
FairWorldSpec ==
  /\ FairSpec
  /\ WF_vars(updateFromSensors_begin)
  /\ WF_vars(updateFromSensors_end)

\* Everything but the manipulability variables.
pipelineVars == << prog, pc, lscene, lockedRev, published, worldVars, planVars,
                   execVars, exitVars, reportVars, vizVars, goalVars, ctrlVars,
                   promptVars >>

-----------------------------------------------------------------------------
(* Joint goals: plan_and_execute up to createJointGoal, for every set of   *)
(* named joint values the planner may hold.                                *)

GoalInit ==
  /\ prog = "plan_and_execute"
  /\ goalInput \in NamedJointValues
  /\ MeasureIdle
  /\ PipelineInit

GoalNext == PE_start \/ PE_setCurToStartState \/ PE_createJointGoal

GoalSpec == GoalInit /\ [][GoalNext]_vars

-----------------------------------------------------------------------------
(* ManipulabilityMeasures::getVector, for every 3x3 eigen_vectors matrix   *)
(* over a small range of entries.  Rows and columns are indexed 0..2.      *)

EigMax == 1
Index3 == 0 .. 2
Matrix3 == [ Index3 -> [ Index3 -> 0 .. EigMax ] ]
EigenValueSamples == { << 0, 0, EigMax >>, << EigMax, EigMax, EigMax >> }

\* Mutant: the two indices are swapped, giving row i.
getVector_row(m, i) ==
  << m.eigen_vectors[i][0], m.eigen_vectors[i][1], m.eigen_vectors[i][2] >>

\* Eigen::Vector3d eig_vec(eigen_vectors(0, i), eigen_vectors(1, i),
\*                         eigen_vectors(2, i)); return eig_vec;
getVector(m, i) ==
  << m.eigen_vectors[0][i], m.eigen_vectors[1][i], m.eigen_vectors[2][i] >>

\* A call of getVector(i) on mm: no member is assigned.
getVector_call ==
  /\ mcall = NoCall
  /\ \E i \in Index3 :
       /\ eig_vec' = getVector(mm, i)
       /\ mcall' = [ op |-> "getVector", arg |-> i ]
  /\ UNCHANGED << mm, jac, threshold, nearZero >>
  /\ UNCHANGED pipelineVars

VectorInit ==
  /\ prog = "pick_and_place_node"
  /\ goalInput = PlannerJointGoal
  /\ PipelineInit
  /\ mm \in [ eigen_values : EigenValueSamples, eigen_vectors : Matrix3,
              pass : BOOLEAN ]
  /\ eig_vec = << >>
  /\ mcall = NoCall
  /\ jac = << >>
  /\ threshold = 0
  /\ nearZero = 0

VectorNext == getVector_call

VectorSpec == VectorInit /\ [][VectorNext]_vars

-----------------------------------------------------------------------------
(* ManipulabilityAnalyzer.evaluate on a 3 x 3 translational Jacobian with  *)
(* small integer entries.  M = Jv Jv^T is symmetric positive semidefinite; *)
(* its eigenvalues are real numbers, and the model keeps of them what can  *)
(* be said exactly: how many are zero (from the characteristic polynomial  *)
(* x^3 - tr x^2 + c1 x - det) and whether the smallest reaches a threshold *)
(* t (M - t I is positive semidefinite: its principal minors are >= 0).    *)

JacMax == 1
MaxThreshold == 1
Jacobians == [ Index3 -> [ Index3 -> 0 .. JacMax ] ]
Thresholds == 1 .. MaxThreshold

\* Jv Jv^T
Manipulability(J) ==
  [ r \in Index3 |-> [ c \in Index3 |->
      J[r][0] * J[c][0] + J[r][1] * J[c][1] + J[r][2] * J[c][2] ] ]

Trace3(M) == M[0][0] + M[1][1] + M[2][2]
Minor2(M, a, b) == M[a][a] * M[b][b] - M[a][b] * M[b][a]
PrincipalMinors2(M) == Minor2(M, 0, 1) + Minor2(M, 0, 2) + Minor2(M, 1, 2)
Det3(M) ==
    M[0][0] * (M[1][1] * M[2][2] - M[1][2] * M[2][1])
  - M[0][1] * (M[1][0] * M[2][2] - M[1][2] * M[2][0])
  + M[0][2] * (M[1][0] * M[2][1] - M[1][1] * M[2][0])

\* Number of zero eigenvalues of a positive semidefinite M.
ZeroEigenvalues(M) ==
  IF Trace3(M) = 0 THEN 3
  ELSE IF PrincipalMinors2(M) = 0 THEN 2
  ELSE IF Det3(M) = 0 THEN 1
  ELSE 0

\* M - t I
Shifted(M, t) ==
  [ r \in Index3 |-> [ c \in Index3 |-> IF r = c THEN M[r][c] - t ELSE M[r][c] ] ]

\* The smallest eigenvalue of M is at least t.
SmallestEigenvalueAtLeast(M, t) ==
  LET S == Shifted(M, t)
  IN  /\ \A a \in Index3 : S[a][a] >= 0
      /\ Minor2(S, 0, 1) >= 0 /\ Minor2(S, 0, 2) >= 0 /\ Minor2(S, 1, 2) >= 0
      /\ Det3(S) >= 0

\* evaluate(jacobian) with threshold t: fail when the smallest eigenvalue is
\* below the threshold.
evaluate_call ==
  /\ mcall = NoCall
  /\ nearZero' = ZeroEigenvalues(Manipulability(jac))
  /\ mm' = [ mm EXCEPT !.pass =
               SmallestEigenvalueAtLeast(Manipulability(jac), threshold) ]
  /\ mcall' = [ op |-> "evaluate", arg |-> 0 ]
  /\ UNCHANGED << eig_vec, jac, threshold >>
  /\ UNCHANGED pipelineVars

EvalInit ==
  /\ prog = "pick_and_place_node"
  /\ goalInput = PlannerJointGoal
  /\ PipelineInit
  /\ mm = ManipulabilityMeasures_new
  /\ eig_vec = << >>
  /\ mcall = NoCall
  /\ jac \in Jacobians
  /\ threshold \in Thresholds
  /\ nearZero = 0

EvalNext == evaluate_call

EvalSpec == EvalInit /\ [][EvalNext]_vars

\* The Jacobian has rank 1: it is not zero and its 2x2 minors all vanish.
Rank1(J) ==
  /\ \E r \in Index3, c \in Index3 : J[r][c] # 0
  /\ \A r1 \in Index3, r2 \in Index3, c1 \in Index3, c2 \in Index3 :
       J[r1][c1] * J[r2][c2] - J[r1][c2] * J[r2][c1] = 0

-----------------------------------------------------------------------------
(* Positions of main.                                                      *)

\* main is inside the planner invocation (lock taken, not yet released).
PlannerPcs == { "generatePlan", "generatePlan_solve", "unlock" }
\* main is about to make, or is inside, a visualization call.
VizPcs == { "visualize", "visualizeGoalState", "visualizeObstacleMarker",
            "visualizeTrajectory", "visualizeTrajectory_raw" }
\* main is about to make, or is inside, an execution call.
ExecPcs == { "push", "executeAndWait", "waiting", "executeBranch" }
\* The plan call has returned.
PlanReturned == planCalls > 0 /\ pc \notin PlannerPcs

-----------------------------------------------------------------------------
(* Claims.                                                                 *)

\* C1: the read lock is held only while the planner is being invoked; it is
\* never held while a visualization or an execution call is in progress.
C1_LockOnlyDuringPlanner ==
  /\ lscene => pc \in PlannerPcs
  /\ pc \in (VizPcs \cup ExecPcs) => ~lscene

\* C1 witness: main waits in executeAndWait, after planning under the lock and
\* after visualizing, and holds no lock.
C1_Witness ==
  /\ pc = "waiting" /\ planCalls = 1 /\ lockedRev # NoRev
  /\ "trajectory_line" \in published /\ ~lscene

\* C2: once a plan call has returned, with success, with any failure code or
\* with a timeout, its read lock is released: a reader or the writer can take
\* the lock at once.
C2_LockReleasedOnReturn ==
  PlanReturned =>
    /\ ~lscene
    /\ ~writing => (ReaderMayEnter /\ WriterMayEnter)

\* C2 witness: the planner timed out, the plan call returned, and the monitor
\* has entered an update since.
C2_Witness ==
  /\ PlanReturned /\ res = "TIMED_OUT" /\ ~lscene
  /\ writing /\ sceneJoints = lockedRev + 1

\* C3: a planner failure gives a result whose reason is the planner's code and
\* main ends normally, in a way its caller can tell from success (main returns
\* 0 on success).
C3_FailureDistinguishable ==
  (pc = "exited" /\ res \in FailureCodes) =>
    /\ exitCode \in { 0, 1 }
    /\ exitCode # 0

\* C4: the execution status moves pending -> running -> terminal only;
\* pending -> running exactly when push succeeds, no terminal status straight
\* from pending, and a terminal status stays.
C4_StatusTransitions ==
  [][ /\ status = "pending" => status' \in { "pending", "running" }
      /\ status = "running" => status' \in { "running" } \cup TerminalStatus
      /\ status \in TerminalStatus => status' = status
      /\ (status = "pending" /\ status' = "running")
           <=> (pc = "push" /\ pc' # pc /\ pushOk') ]_vars

\* C6: while the read lock is held the world is at one revision, the one
\* locked, with no update under way, and what the planner reads of it belongs
\* to that revision.
C6_ReaderSeesOneRevision ==
  /\ lscene => /\ ~writing
               /\ rev = lockedRev
               /\ sceneJoints = lockedRev
               /\ sceneObstacles = lockedRev
  /\ pc \in { "generatePlan_solve", "unlock" } => seenJoints = lockedRev
  /\ pc = "unlock" => seenObstacles = seenJoints

\* C6 witness: the planner has read the whole scene under the lock, after
\* updates, with the monitor ready to write the next one.
C6_Witness ==
  /\ lscene /\ pc = "unlock" /\ lockedRev >= 1 /\ rev < MaxRev
  /\ seenJoints = lockedRev /\ seenObstacles = lockedRev

\* C7: the state the planner plans from is never older than the revision
\* current when the read lock was taken.
C7_PlansFromCurrent ==
  planCalls > 0 => planStart >= lockedRev

\* C8: with no world state ever observed the pipeline does not reach the
\* planner: the lock is only held on an observed state.
C8_NoPlanningOnUnobserved ==
  (lscene \/ planCalls > 0) => lockedRev >= 1

\* C9: main stays suspended in executeAndWait until the status is terminal,
\* and under fair scheduling of the backend and its clock it does return, by
\* the timeout if by nothing else.
C9_ExecuteReturns ==
  /\ [](pushCount > 0 /\ pc \notin { "executeAndWait", "waiting" }
          => status \in TerminalStatus)
  /\ (pc = "waiting") ~> (pc = "logStatus" /\ status \in TerminalStatus)

\* C9 witness: the backend never reported and the timeout ended the wait.
C9_Witness ==
  pc = "logStatus" /\ status = "timeout" /\ elapsed = TimeBudget /\ pushOk

\* C10: no retry: at most one hand-off to the backend and at most one planner
\* invocation, whatever either reports.
C10_NoRetry ==
  /\ pushCount <= 1
  /\ planCalls <= 1

\* C10 witness: the run is over after an execution that did not succeed, with
\* one hand-off and one planner invocation.
C10_Witness ==
  /\ pc = "exited" /\ status \in { "failed", "preempted", "timeout" }
  /\ pushCount = 1 /\ planCalls = 1

\* C11: the status main gets from executeAndWait is the backend's, code and
\* diagnostic as reported; a backend fault comes back as failed with its
\* diagnostic, never as succeeded.
C11_StatusVerbatim ==
  /\ returned # NoStatus =>
       /\ returned.code = status
       /\ returned.diagnostic = backendDiag
       /\ status = "failed" =>
            (returned.code = "failed" /\ returned.diagnostic \in Diagnostics)
  /\ (pushCount > 0 /\ pc \notin { "executeAndWait", "waiting" }) =>
       returned # NoStatus

\* Where main goes after each visualization call that succeeds.
VizSuccessor ==
  [ visualize |-> "printControllers",
    visualizeGoalState |-> "visualizeObstacleMarker",
    visualizeObstacleMarker |-> "promptUserInput",
    visualizeTrajectory |-> "visualizeTrajectory_raw",
    visualizeTrajectory_raw |-> "promptUserInput2" ]

\* C12: a visualization call, failed or not, takes main to the same next
\* statement and changes neither the planning result nor the execution state
\* nor what main returns; a successful plan ends with exit 0 and, in
\* pick_and_place_node, with its one hand-off, whatever the sink did.
C12_VisualizationNeverPropagates ==
  /\ [][ (pc \in VizPcs /\ pc' # pc) =>
           /\ pc' = VizSuccessor[pc]
           /\ UNCHANGED << res, planStart, planCalls, pushOk, pushCount,
                           status, returned, exitCode, errorLog >> ]_vars
  /\ [](pc = "exited" /\ res = SuccessCode =>
          /\ exitCode = 0
          /\ prog = "pick_and_place_node" => pushCount = 1)

\* C12 witness: the trajectory line could not be published and the
\* trajectory was executed to success all the same.
C12_Witness ==
  /\ pc = "exited" /\ "trajectory_line" \in vizFailed
  /\ pushCount = 1 /\ returned.code = "succeeded" /\ exitCode = 0

\* C18: the controller lists are queried before every hand-off, and whatever
\* they hold, both empty included, main goes on to push and the query changes
\* nothing of the execution state.
C18_ControllerQueryNotGating ==
  /\ []((pc = "push" \/ pushCount > 0) => controllersQueried)
  /\ [][ (pc = "printControllers" /\ pc' # pc) =>
           /\ pc' = "push"
           /\ UNCHANGED << pushOk, pushCount, status, elapsed, returned,
                           exitCode >> ]_vars
  /\ [][ (pc = "push" /\ pc' # pc) =>
           (pc' = "executeAndWait" /\ pushCount' = pushCount + 1) ]_vars

\* C18 witness: both lists were empty and the trajectory was pushed and
\* executed to success.
C18_Witness ==
  /\ controllersQueried /\ known_controllers = {} /\ active_controllers = {}
  /\ pushCount = 1 /\ pushOk /\ returned.code = "succeeded"

\* C19: a hand-off to execution happens only after the planner reported
\* SUCCESS and the plan was given to the visualization sink; after a
\* non-success code no trajectory is published and nothing is executed.
C19_ExecuteOnlyAfterSuccess ==
  /\ (pushCount > 0 \/ pc \in { "push", "executeAndWait", "waiting" }) =>
       /\ res = SuccessCode
       /\ "display_planned_path" \in published
  /\ published \cap TrajectoryArtifacts # {} => res = SuccessCode
  /\ res \in FailureCodes =>
       /\ published \cap TrajectoryArtifacts = {}
       /\ pushCount = 0
       /\ status = "pending"
       /\ returned = NoStatus

\* C19 witness: the trajectory is handed to the backend after SUCCESS and
\* after its publication.
C19_Witness ==
  /\ pc = "executeAndWait" /\ pushCount = 1 /\ res = SuccessCode
  /\ "display_planned_path" \in published

\* C20: plan_and_execute shows the goal state and the obstacle markers before
\* the first prompt, plans only after the operator confirmed, and on a refusal
\* ends with no planning context, no planner call, no trajectory published or
\* executed.
C20_PlanOnlyAfterConfirm ==
  prog = "plan_and_execute" =>
    /\ (pc = "promptUserInput" \/ promptAnswer # "none") =>
         { "goal_state", "obstacle_markers" } \subseteq published
    /\ (contextCreated \/ lscene \/ planCalls > 0) => promptAnswer = "yes"
    /\ promptAnswer = "no" =>
         /\ pc = "exited" /\ exitCode = 0
         /\ ~contextCreated /\ planCalls = 0 /\ res = Unset
         /\ published \cap TrajectoryArtifacts = {}
         /\ pushCount = 0

\* C20 witness: the operator refused and main ended having only shown the
\* goal state and the obstacle markers.
C20_Witness ==
  /\ prog = "plan_and_execute" /\ promptAnswer = "no" /\ pc = "exited"
  /\ published = { "goal_state", "obstacle_markers" } /\ planCalls = 0

\* C13: buildJointGoal fails with UnknownJoint as soon as one named joint is
\* not a joint of the robot model; otherwise the goal is a joint goal over
\* exactly the named joints, with their values.
C13_JointGoal ==
  goal # NoGoal =>
    /\ (\E j \in DOMAIN goalInput : j \notin ModelJoints) => goal = UnknownJoint
    /\ (\A j \in DOMAIN goalInput : j \in ModelJoints) =>
         /\ goal.kind = "joint"
         /\ DOMAIN goal.joints = DOMAIN goalInput
         /\ \A j \in DOMAIN goalInput : goal.joints[j] = goalInput[j]

\* C13 witness: a goal over two of the model's joints was built.
C13_Witness ==
  /\ goal.kind = "joint" /\ DOMAIN goalInput = { 1, 3 }
  /\ DOMAIN goal.joints = { 1, 3 }

\* C14: getVector(i) is column i of eigen_vectors, for i in 0..2, and the
\* call changes no member of the object.
C14_GetVectorIsColumn ==
  /\ [](mcall.op = "getVector" =>
          /\ Len(eig_vec) = 3
          /\ \A k \in Index3 : eig_vec[k + 1] = mm.eigen_vectors[k][mcall.arg])
  /\ [][ (mcall'.op = "getVector") => mm' = mm ]_vars

\* C14 witness: column 2 of a matrix whose row 2 differs from it.
C14_Witness ==
  /\ mcall = [ op |-> "getVector", arg |-> 2 ]
  /\ eig_vec = << 1, 0, 1 >>
  /\ mm.eigen_vectors[2] = [ c \in Index3 |-> IF c = 2 THEN 1 ELSE 0 ]

\* C15: evaluated on a rank-1 Jacobian, two of the three eigenvalues are zero
\* and pass is false whatever the positive threshold; pass is true only once
\* an evaluation has set it.
C15_Rank1Fails ==
  /\ (mcall.op = "evaluate" /\ Rank1(jac)) => (nearZero = 2 /\ ~mm.pass)
  /\ mm.pass => mcall.op = "evaluate"

\* C15 witness: a rank-1 Jacobian has been evaluated.
C15_Witness ==
  /\ mcall.op = "evaluate" /\ Rank1(jac) /\ nearZero = 2 /\ ~mm.pass
  /\ jac[0] = jac[1] /\ jac[2][0] = 0 /\ jac[2][1] = 0 /\ jac[2][2] = 0

\* C17: an update kept out by the planner's read lock does complete once the
\* lock is released: under fair scheduling the revision moves past the one
\* that was locked.
C17_WriterNotStarved ==
  (lscene /\ rev < MaxRev) ~> (~lscene /\ rev > lockedRev)

\* C17 witness: the update that had to wait for the planner has been written.
C17_Witness ==
  /\ lockedRev # NoRev /\ ~lscene /\ ~writing
  /\ rev = lockedRev + 1 /\ sceneObstacles = rev

=============================================================================
